---------------------------- MODULE Spec2Model ----------------------------
(***************************************************************************)
(* Model of lex-pr-runner's plan validator (lex_pr/plan_schema.py), its    *)
(* levelled topological sort (py-prototype/toposort.py) and the            *)
(* merge-order command that chains them (py-prototype/cli.py).             *)
(*                                                                         *)
(* Python strings are sequences of code points, so that comparison,        *)
(* strip(), truthiness and the f-string "repo@branch" are computed the way *)
(* Python computes them.  JSON values carry their Python type in a tag.    *)
(***************************************************************************)
EXTENDS Integers, Sequences, FiniteSets, TLC

VARIABLES
    data,            \* cli.py:39     the parsed plan document handed to validate_plan
    jsonschema_ok,   \* plan_schema.py:17-33  whether the schema-driven branch runs to its end
    pc,              \* position of merge_order / of the direct caller
    valid,           \* cli.py:40     (ok, err) returned by validate_plan
    items,           \* toposort.py:14 the argument of levels
    lvls,            \* cli.py:45     outcome of levels: a level list or a raised exception
    exit_code,       \* cli.py:43,48,51,57  code of typer.Exit, -1 while running
    trace            \* the calls made so far, in order (a first call and the latest one)

vars == <<data, jsonschema_ok, pc, valid, items, lvls, exit_code, trace>>

---------------------------------------------------------------------------
(* Bounds of the explored inputs.                                          *)

\* longest items list handed directly to levels
MaxItems == 4

\* longest items list of a plan document given to the merge-order command
MaxPlanItems == 2

---------------------------------------------------------------------------
(* Python values.                                                          *)

Range(s) == {s[i] : i \in 1..Len(s)}

Str(s) == [t |-> "str", v |-> s]

\* any JSON value that is no string, list or object (a number, true, null)
Num == [t |-> "int", v |-> <<>>]

List(l) == [t |-> "list", v |-> l]

Obj(f) == [t |-> "dict", v |-> f]

isinstance(x, ty) == x.t = ty

Has(o, k) == k \in DOMAIN o.v

\* str.isspace() code points that occur in the inputs: space, tab, newline
Whitespace == {32, 9, 10}

RECURSIVE LStrip(_)
LStrip(s) ==
    IF s # <<>> /\ Head(s) \in Whitespace THEN LStrip(Tail(s)) ELSE s

RECURSIVE RStrip(_)
RStrip(s) ==
    IF s # <<>> /\ s[Len(s)] \in Whitespace
    THEN RStrip(SubSeq(s, 1, Len(s) - 1))
    ELSE s

\* str.strip()
strip(s) == RStrip(LStrip(s))

\* truthiness of a Python str
Truthy(s) == Len(s) > 0

\* s < t on Python strings: code point by code point, a proper prefix first
RECURSIVE LexLess(_, _)
LexLess(s, t) ==
    IF s = <<>> THEN t # <<>>
    ELSE IF t = <<>> THEN FALSE
    ELSE IF Head(s) < Head(t) THEN TRUE
    ELSE IF Head(s) > Head(t) THEN FALSE
    ELSE LexLess(Tail(s), Tail(t))

\* insertion of x after every element not greater than it (sorted is stable)
RECURSIVE InsertSorted(_, _)
InsertSorted(x, s) ==
    IF s = <<>> THEN <<x>>
    ELSE IF LexLess(x, Head(s)) THEN <<x>> \o s
    ELSE <<Head(s)>> \o InsertSorted(x, Tail(s))

RECURSIVE SortFrom(_, _)
SortFrom(s, acc) ==
    IF s = <<>> THEN acc ELSE SortFrom(Tail(s), InsertSorted(Head(s), acc))

\* a sort that was left out: the list in the order it came
sorted_unsorted(s) == s

\* sorted(list of str)
sorted(s) == SortFrom(s, <<>>)

---------------------------------------------------------------------------
(* toposort.py                                                             *)

\* a name lookup that takes any present name, the empty one too
name_of_present_key(item) ==
    IF Has(item, "name")
    THEN item.v.name.v
    ELSE item.v.repo.v \o <<64>> \o item.v.branch.v

\* item.get("name") or f"{item['repo']}@{item['branch']}"
_name_of(item) ==
    IF Has(item, "name") /\ Truthy(item.v.name.v)
    THEN item.v.name.v
    ELSE item.v.repo.v \o <<64>> \o item.v.branch.v

\* it.get("deps", []) or []   as the list of its strings
deps_of(it) ==
    IF Has(it, "deps")
    THEN [j \in 1..Len(it.v.deps.v) |-> it.v.deps.v[j].v]
    ELSE <<>>

\* names = [_name_of(i) for i in items]
names_of(its) == [i \in 1..Len(its) |-> _name_of(its[i])]

\* the keys of a dict built from a list, in insertion order (first occurrence)
RECURSIVE KeysInOrder(_, _)
KeysInOrder(s, acc) ==
    IF s = <<>> THEN acc
    ELSE KeysInOrder(Tail(s),
                     IF Head(s) \in Range(acc) THEN acc ELSE Append(acc, Head(s)))

NoResult == [kind |-> "none", levels |-> <<>>, me |-> <<>>, d |-> <<>>, partial |-> <<>>]

\* an exception whose message has its two names the wrong way round
KeyErrorSwapped(me, d) ==
    [kind |-> "KeyError", levels |-> <<>>, me |-> d, d |-> me, partial |-> <<>>]

\* raise KeyError(f"unknown dep '{d}' for item '{me}'")
KeyError(me, d) ==
    [kind |-> "KeyError", levels |-> <<>>, me |-> me, d |-> d, partial |-> <<>>]

\* raise CycleError(...): the levels accumulated so far are dropped with the frame
CycleError(result) ==
    [kind |-> "CycleError", levels |-> <<>>, me |-> <<>>, d |-> <<>>, partial |-> result]

\* return result
Returned(result) ==
    [kind |-> "levels", levels |-> result, me |-> <<>>, d |-> <<>>, partial |-> <<>>]

\* an edge recorded without counting it
AddEdgeNoCount(g, d, me) ==
    [g EXCEPT !.children[d] = Append(@, me)]

\* children[d].append(me); in_deg[me] += 1
AddEdge(g, d, me) ==
    [g EXCEPT !.children[d] = Append(@, me), !.in_deg[me] = @ + 1]

\* for d in deps: the unknown-dep check, then the edge
RECURSIVE AddDeps(_, _, _, _, _)
AddDeps(me, deps, j, name_set, g) ==
    IF j > Len(deps) THEN g
    ELSE IF deps[j] \notin name_set
         THEN [g EXCEPT !.raised = KeyError(me, deps[j])]
         ELSE AddDeps(me, deps, j + 1, name_set, AddEdge(g, deps[j], me))

\* for it in items: ...
RECURSIVE BuildGraph(_, _, _, _)
BuildGraph(its, i, name_set, g) ==
    IF i > Len(its) \/ g.raised.kind # "none" THEN g
    ELSE BuildGraph(its, i + 1, name_set,
                    AddDeps(_name_of(its[i]), deps_of(its[i]), 1, name_set, g))

\* a frontier that also takes the names with one dependency left
InitialFrontierOffByOne(in_deg, names) ==
    sorted(SelectSeq(KeysInOrder(names, <<>>), LAMBDA n : in_deg[n] <= 1))

\* q = deque(sorted([n for n, deg in in_deg.items() if deg == 0]))
InitialFrontier(in_deg, names) ==
    sorted(SelectSeq(KeysInOrder(names, <<>>), LAMBDA n : in_deg[n] = 0))

\* a decrement that schedules the parent instead of the child
DecrementWrongName(st, n, c) ==
    LET deg == st.in_deg[c] - 1 IN
    [in_deg |-> [st.in_deg EXCEPT ![c] = deg],
     q |-> IF deg = 0 THEN Append(st.q, n) ELSE st.q]

\* in_deg[c] -= 1; if in_deg[c] == 0: q.append(c)
Decrement(st, n, c) ==
    LET deg == st.in_deg[c] - 1 IN
    [in_deg |-> [st.in_deg EXCEPT ![c] = deg],
     q |-> IF deg = 0 THEN Append(st.q, c) ELSE st.q]

\* for c in sorted(children.get(n, [])): ...
RECURSIVE VisitChildren(_, _, _, _)
VisitChildren(n, cs, k, st) ==
    IF k > Len(cs) THEN st
    ELSE VisitChildren(n, cs, k + 1, Decrement(st, n, cs[k]))

\* for n in this_level: ...
RECURSIVE VisitLevel(_, _, _, _)
VisitLevel(this_level, k, children, st) ==
    IF k > Len(this_level) THEN st
    ELSE VisitLevel(this_level, k + 1, children,
                    VisitChildren(this_level[k], sorted(children[this_level[k]]), 1, st))

\* while q: ...
RECURSIVE KahnLoop(_, _, _, _)
KahnLoop(q, in_deg, children, result) ==
    IF q = <<>> THEN [in_deg |-> in_deg, result |-> result]
    ELSE LET this_level == sorted(q)
             st == VisitLevel(this_level, 1, children, [in_deg |-> in_deg, q |-> <<>>])
         IN KahnLoop(st.q, st.in_deg, children, Append(result, this_level))

\* a residue test that misses a single remaining dependency
CycleLeftOffByOne(in_deg) == \E n \in DOMAIN in_deg : in_deg[n] > 1

\* any(deg > 0 for deg in in_deg.values())
CycleLeft(in_deg) == \E n \in DOMAIN in_deg : in_deg[n] > 0

\* levels(items)
levels(its) ==
    LET names == names_of(its)
        name_set == Range(names)
        g == BuildGraph(its, 1, name_set,
                        [in_deg |-> [n \in name_set |-> 0],
                         children |-> [n \in name_set |-> <<>>],
                         raised |-> NoResult])
    IN IF g.raised.kind # "none" THEN g.raised
       ELSE LET k == KahnLoop(InitialFrontier(g.in_deg, names), g.in_deg, g.children, <<>>)
            IN IF CycleLeft(k.in_deg) THEN CycleError(k.result) ELSE Returned(k.result)

---------------------------------------------------------------------------
(* plan_schema.py                                                          *)

\* return True, None
Ok == [ok |-> TRUE, path |-> <<>>, msg |-> "None"]

\* return False, f"{path}: {msg}"   with the path kept as its components
Err(path, msg) == [ok |-> FALSE, path |-> path, msg |-> msg]

\* validate_plan not called yet
NotValidated == [ok |-> FALSE, path |-> <<>>, msg |-> "not validated"]

\* req not in o or not isinstance(o[req], str) or not o[req].strip()
MissingOrBlank(o, req) ==
    \/ ~Has(o, req)
    \/ ~isinstance(o.v[req], "str")
    \/ ~Truthy(strip(o.v[req].v))

\* not all(isinstance(d, str) and d.strip() for d in deps)
BadDeps(deps) ==
    \/ ~isinstance(deps, "list")
    \/ \E j \in 1..Len(deps.v) :
          ~isinstance(deps.v[j], "str") \/ ~Truthy(strip(deps.v[j].v))

\* not isinstance(env, dict) or not all(isinstance(k, str) and isinstance(v, str) ...)
BadEnv(env) ==
    \/ ~isinstance(env, "dict")
    \/ \E k \in DOMAIN env.v : ~isinstance(env.v[k], "str")

\* the body of the loop over one item's gates, lines 61-70
GateError(idx, gidx, g) ==
    IF ~isinstance(g, "dict")
    THEN Err(<<"items", idx, "gates", gidx>>, "expected object")
    ELSE IF MissingOrBlank(g, "name")
    THEN Err(<<"items", idx, "gates", gidx, "name">>, "required non-empty string")
    ELSE IF MissingOrBlank(g, "run")
    THEN Err(<<"items", idx, "gates", gidx, "run">>, "required non-empty string")
    ELSE IF Has(g, "cwd") /\ ~isinstance(g.v.cwd, "str")
    THEN Err(<<"items", idx, "gates", gidx, "cwd">>, "expected string")
    ELSE IF Has(g, "env") /\ BadEnv(g.v.env)
    THEN Err(<<"items", idx, "gates", gidx, "env">>, "expected object of string->string")
    ELSE Ok

\* for gidx, g in enumerate(it["gates"]): ...
RECURSIVE GatesLoop(_, _, _)
GatesLoop(idx, gates, k) ==
    IF k > Len(gates) THEN Ok
    ELSE LET e == GateError(idx, k - 1, gates[k])
         IN IF ~e.ok THEN e ELSE GatesLoop(idx, gates, k + 1)

\* the gates block of one item, lines 57-70
GatesError(idx, it) ==
    IF ~Has(it, "gates") THEN Ok
    ELSE IF ~isinstance(it.v.gates, "list")
    THEN Err(<<"items", idx, "gates">>, "expected array")
    ELSE GatesLoop(idx, it.v.gates.v, 1)

\* the field checks of one item with deps and gates looked at before name
ItemErrorDepsFirst(idx, it) ==
    IF ~isinstance(it, "dict")
    THEN Err(<<"items", idx>>, "expected object")
    ELSE IF MissingOrBlank(it, "repo")
    THEN Err(<<"items", idx, "repo">>, "required non-empty string")
    ELSE IF MissingOrBlank(it, "branch")
    THEN Err(<<"items", idx, "branch">>, "required non-empty string")
    ELSE IF Has(it, "deps") /\ BadDeps(it.v.deps)
    THEN Err(<<"items", idx, "deps">>, "expected array of strings")
    ELSE IF ~GatesError(idx, it).ok
    THEN GatesError(idx, it)
    ELSE IF Has(it, "name") /\ ~isinstance(it.v.name, "str")
    THEN Err(<<"items", idx, "name">>, "expected string")
    ELSE Ok

\* the field checks of one item, lines 47-70
ItemError(idx, it) ==
    IF ~isinstance(it, "dict")
    THEN Err(<<"items", idx>>, "expected object")
    ELSE IF MissingOrBlank(it, "repo")
    THEN Err(<<"items", idx, "repo">>, "required non-empty string")
    ELSE IF MissingOrBlank(it, "branch")
    THEN Err(<<"items", idx, "branch">>, "required non-empty string")
    ELSE IF Has(it, "name") /\ ~isinstance(it.v.name, "str")
    THEN Err(<<"items", idx, "name">>, "expected string")
    ELSE IF Has(it, "deps") /\ BadDeps(it.v.deps)
    THEN Err(<<"items", idx, "deps">>, "expected array of strings")
    ELSE GatesError(idx, it)

\* name = it.get("name") or f"{it['repo']}@{it['branch']}"
item_name(it) ==
    IF Has(it, "name") /\ Truthy(it.v.name.v)
    THEN it.v.name.v
    ELSE it.v.repo.v \o <<64>> \o it.v.branch.v

\* len(set(item_names)) != len(item_names)
DuplicateNames(item_names) == Cardinality(Range(item_names)) # Len(item_names)

\* for idx, it in enumerate(data["items"]): ...   and the check after the loop
RECURSIVE ItemsLoop(_, _, _)
ItemsLoop(its, i, item_names) ==
    IF i > Len(its)
    THEN IF DuplicateNames(item_names)
         THEN Err(<<"items">>, "duplicate item names (explicit or derived)")
         ELSE Ok
    ELSE LET e == ItemError(i - 1, its[i])
         IN IF ~e.ok THEN e
            ELSE ItemsLoop(its, i + 1, Append(item_names, item_name(its[i])))

\* _fallback_validate(data)
_fallback_validate(d) ==
    IF ~isinstance(d, "dict")
    THEN Err(<<"<root>">>, "expected object")
    ELSE IF MissingOrBlank(d, "target")
    THEN Err(<<"target">>, "required non-empty string")
    ELSE IF ~Has(d, "items") \/ ~isinstance(d.v.items, "list")
    THEN Err(<<"items">>, "required array")
    ELSE ItemsLoop(d.v.items.v, 1, <<>>)

---------------------------------------------------------------------------
(* The plan's structural contract: every field violation of a document,    *)
(* listed in document order (target, items, then item by item repo,        *)
(* branch, name, deps, gates, and gate by gate name, run, cwd, env).       *)

If(c, e) == IF c THEN <<e>> ELSE <<>>

GateViolations(idx, gidx, g) ==
    IF ~isinstance(g, "dict")
    THEN <<Err(<<"items", idx, "gates", gidx>>, "expected object")>>
    ELSE If(MissingOrBlank(g, "name"),
            Err(<<"items", idx, "gates", gidx, "name">>, "required non-empty string"))
      \o If(MissingOrBlank(g, "run"),
            Err(<<"items", idx, "gates", gidx, "run">>, "required non-empty string"))
      \o If(Has(g, "cwd") /\ ~isinstance(g.v.cwd, "str"),
            Err(<<"items", idx, "gates", gidx, "cwd">>, "expected string"))
      \o If(Has(g, "env") /\ BadEnv(g.v.env),
            Err(<<"items", idx, "gates", gidx, "env">>, "expected object of string->string"))

RECURSIVE GatesViolations(_, _, _)
GatesViolations(idx, gates, k) ==
    IF k > Len(gates) THEN <<>>
    ELSE GateViolations(idx, k - 1, gates[k]) \o GatesViolations(idx, gates, k + 1)

ItemViolations(idx, it) ==
    IF ~isinstance(it, "dict")
    THEN <<Err(<<"items", idx>>, "expected object")>>
    ELSE If(MissingOrBlank(it, "repo"),
            Err(<<"items", idx, "repo">>, "required non-empty string"))
      \o If(MissingOrBlank(it, "branch"),
            Err(<<"items", idx, "branch">>, "required non-empty string"))
      \o If(Has(it, "name") /\ ~isinstance(it.v.name, "str"),
            Err(<<"items", idx, "name">>, "expected string"))
      \o If(Has(it, "deps") /\ BadDeps(it.v.deps),
            Err(<<"items", idx, "deps">>, "expected array of strings"))
      \o (IF ~Has(it, "gates") THEN <<>>
          ELSE IF ~isinstance(it.v.gates, "list")
          THEN <<Err(<<"items", idx, "gates">>, "expected array")>>
          ELSE GatesViolations(idx, it.v.gates.v, 1))

RECURSIVE ItemsViolations(_, _)
ItemsViolations(its, i) ==
    IF i > Len(its) THEN <<>>
    ELSE ItemViolations(i - 1, its[i]) \o ItemsViolations(its, i + 1)

Violations(d) ==
    IF ~isinstance(d, "dict")
    THEN <<Err(<<"<root>">>, "expected object")>>
    ELSE If(MissingOrBlank(d, "target"), Err(<<"target">>, "required non-empty string"))
      \o (IF ~Has(d, "items") \/ ~isinstance(d.v.items, "list")
          THEN <<Err(<<"items">>, "required array")>>
          ELSE ItemsViolations(d.v.items.v, 1))

---------------------------------------------------------------------------
(* The schema-driven branch of validate_plan.  schemas/plan.schema.json    *)
(* is a draft 2020-12 schema of the structural contract above; no keyword  *)
(* of that draft compares a field, let alone a derived one, across the     *)
(* elements of an array, so its errors are the field violations.           *)

\* the field names in the order Python compares them
KeyOrder ==
    <<"branch", "cwd", "deps", "env", "gates", "items", "name", "repo", "run", "target">>

KeyRank(k) == CHOOSE i \in 1..Len(KeyOrder) : KeyOrder[i] = k

\* e.path of a schema error: the root's path is empty
ErrorPath(e) == IF Len(e.path) = 1 /\ e.path[1] = "<root>" THEN <<>> ELSE e.path

\* p < q on two paths (deques of keys at the odd places, indexes at the even ones)
RECURSIVE PathLess(_, _, _)
PathLess(p, q, k) ==
    IF k > Len(p) THEN k <= Len(q)
    ELSE IF k > Len(q) THEN FALSE
    ELSE IF p[k] = q[k] THEN PathLess(p, q, k + 1)
    ELSE IF k % 2 = 1 THEN KeyRank(p[k]) < KeyRank(q[k])
    ELSE p[k] < q[k]

\* validator.iter_errors(data)
iter_errors(d) == Violations(d)

\* sorted(errors, key=lambda e: e.path)[0]
FirstByPath(errors) ==
    LET best == CHOOSE i \in 1..Len(errors) :
                  /\ \A j \in 1..Len(errors) :
                        ~PathLess(ErrorPath(errors[j]), ErrorPath(errors[i]), 1)
                  /\ \A j \in 1..(i - 1) :
                        PathLess(ErrorPath(errors[i]), ErrorPath(errors[j]), 1)
    IN errors[best]

\* loc = "/".join(...); f"{loc or '<root>'}: {first.message}"
\* (the message is the schema engine's own text)
SchemaMessage(first) ==
    Err(IF ErrorPath(first) = <<>> THEN <<"<root>">> ELSE ErrorPath(first), "first.message")

\* validate_plan(data, use_jsonschema); engine_ok: the try block raised nothing
validate_plan(d, use_jsonschema, engine_ok) ==
    IF use_jsonschema /\ engine_ok
    THEN LET errors == iter_errors(d)
         IN IF errors # <<>> THEN SchemaMessage(FirstByPath(errors)) ELSE Ok
    ELSE _fallback_validate(d)

---------------------------------------------------------------------------
(* Inputs.  Strings by their code points.                                  *)

sA == <<65>>
sB == <<66>>
sC == <<67>>
sX == <<88>>
sY == <<89>>
sr == <<114>>
sa == <<97>>
sb == <<98>>
sc == <<99>>
sBlank == <<32>>
sEmpty == <<>>
sDerived == <<114, 64, 97>>
sMain == <<109, 97, 105, 110>>

Deps(names) == List([j \in 1..Len(names) |-> Str(names[j])])

Named(n, branch) == Obj([name |-> Str(n), repo |-> Str(sr), branch |-> Str(branch)])

NamedDeps(n, branch, deps) ==
    Obj([name |-> Str(n), repo |-> Str(sr), branch |-> Str(branch), deps |-> Deps(deps)])

Unnamed(branch) == Obj([repo |-> Str(sr), branch |-> Str(branch)])

UnnamedDeps(branch, deps) ==
    Obj([repo |-> Str(sr), branch |-> Str(branch), deps |-> Deps(deps)])

\* the shape-valid items handed to levels (the tests' items among them)
LevelItemPool ==
    << Named(sA, sa),
       NamedDeps(sB, sb, <<sA, sA>>),
       Named(sC, sc),
       NamedDeps(sA, sa, <<sDerived>>),
       NamedDeps(sC, sc, <<sB, sA>>),
       NamedDeps(sB, sb, <<>>),
       NamedDeps(sA, sa, <<sY, sX>>),
       NamedDeps(sB, sb, <<sX>>),
       NamedDeps(sC, sc, <<sC>>),
       UnnamedDeps(sa, <<sA>>) >>

GoodGate == Obj([name |-> Str(sA), run |-> Str(sX), cwd |-> Str(sa), env |-> Obj([K |-> Str(sa)])])

Gated(gates) ==
    Obj([name |-> Str(sA), repo |-> Str(sr), branch |-> Str(sa), gates |-> gates])

\* the items of the plan documents: valid ones, and one for each way to be invalid
PlanItemPool ==
    << Named(sA, sa),
       Obj([name |-> Str(sB), repo |-> Str(sr), branch |-> Str(sb), deps |-> Deps(<<sA>>),
            gates |-> List(<<GoodGate>>)]),
       NamedDeps(sA, sb, <<sB>>),
       Unnamed(sa),
       Named(sDerived, sb),
       Named(sEmpty, sa),
       Named(sEmpty, sb),
       Named(sBlank, sa),
       NamedDeps(sC, sc, <<sX>>),
       NamedDeps(sB, sb, <<sB>>),
       Num,
       Obj([name |-> Str(sA), branch |-> Str(sa)]),
       Obj([name |-> Str(sA), repo |-> Str(sr)]),
       Obj([repo |-> Str(sr), branch |-> Str(sBlank)]),
       Obj([repo |-> Num, branch |-> Num]),
       Obj([repo |-> Str(sr), branch |-> Str(sa), name |-> Num, deps |-> Num]),
       Obj([repo |-> Str(sr), branch |-> Str(sa), deps |-> List(<<Str(sA), Num>>)]),
       Obj([repo |-> Str(sr), branch |-> Str(sa), deps |-> Deps(<<sBlank>>), gates |-> Num]),
       Gated(Num),
       Gated(List(<<Num>>)),
       Gated(List(<<Obj([run |-> Str(sX)])>>)),
       Gated(List(<<Obj([name |-> Str(sA), run |-> Str(sEmpty)])>>)),
       Gated(List(<<Obj([name |-> Str(sA), run |-> Str(sX), cwd |-> Num, env |-> Num])>>)),
       Gated(List(<<Obj([name |-> Str(sA), run |-> Str(sX), env |-> Obj([K |-> Num])])>>)),
       Gated(List(<<GoodGate, Obj([name |-> Num, run |-> Str(sX)])>>)),
       Gated(List(<<Obj([name |-> Str(sA), run |-> Str(sX), env |-> Num]), Num>>)) >>

\* the lists of at most n elements drawn from a pool, by their indexes
RECURSIVE IndexLists(_, _)
IndexLists(size, n) ==
    IF n = 0 THEN {<<>>}
    ELSE LET shorter == IndexLists(size, n - 1)
         IN shorter \cup {Append(l, i) : l \in {m \in shorter : Len(m) = n - 1}, i \in 1..size}

Pick(pool, l) == [k \in 1..Len(l) |-> pool[l[k]]]

\* the target fields: valid, empty, blank, not a string
TargetPool == <<Str(sMain), Str(sEmpty), Str(sBlank), Num>>

\* a plan document: target TargetPool[ti] (none when ti = 0) and an items field
Doc(ti, shape, l) ==
    LET its == IF shape = "list" THEN List(Pick(PlanItemPool, l)) ELSE Num
    IN IF shape = "notdict" THEN List(<<>>)
       ELSE IF ti = 0 THEN Obj([items |-> its])
       ELSE IF shape = "missing" THEN Obj([target |-> TargetPool[ti]])
       ELSE Obj([target |-> TargetPool[ti], items |-> its])

---------------------------------------------------------------------------
(* cli.py: the merge-order command.                                        *)

\* the two exit codes with their exceptions exchanged
exit_code_swapped(r) ==
    CASE r.kind = "KeyError" -> 3
      [] r.kind = "CycleError" -> 2
      [] OTHER -> -1

\* except KeyError: Exit(2); except CycleError: Exit(3); otherwise go on
exit_code_of(r) ==
    CASE r.kind = "KeyError" -> 2
      [] r.kind = "CycleError" -> 3
      [] OTHER -> -1

Init ==
    /\ \E ti \in 0..Len(TargetPool) :
       \E shape \in {"list", "missing", "notlist", "notdict"} :
       \E l \in IndexLists(Len(PlanItemPool), MaxPlanItems) :
          /\ shape # "list" => l = <<>>
          \* no item verbatim twice: the one repetition a schema could itself
          \* reject (uniqueItems), so the schema branch's answer never rests on it
          /\ \A a, b \in 1..Len(l) : a # b => l[a] # l[b]
          /\ shape = "notdict" => ti = 1
          /\ (shape = "missing" => ti # 0)
          /\ data = Doc(ti, shape, l)
    /\ jsonschema_ok \in BOOLEAN
    /\ pc = "start"
    /\ valid = NotValidated
    /\ items = <<>>
    /\ lvls = NoResult
    /\ exit_code = -1
    /\ trace = <<>>

\* lines 40-43: ok, err = validate_plan(data); if not ok: Exit(1)
Validate ==
    /\ pc = "start"
    /\ LET r == validate_plan(data, TRUE, jsonschema_ok)
       IN /\ valid' = r
          /\ pc' = IF r.ok THEN "order" ELSE "exit"
          /\ exit_code' = IF r.ok THEN exit_code ELSE 1
    /\ trace' = Append(trace, "validate_plan")
    /\ UNCHANGED <<data, jsonschema_ok, items, lvls>>

\* lines 44-51: lvls = levels(data["items"]) and its two except clauses
Order ==
    /\ pc = "order"
    /\ LET r == levels(data.v.items.v)
       IN /\ lvls' = r
          /\ pc' = IF r.kind = "levels" THEN "output" ELSE "exit"
          /\ exit_code' = exit_code_of(r)
    /\ items' = data.v.items.v
    /\ trace' = Append(trace, "levels")
    /\ UNCHANGED <<data, jsonschema_ok, valid>>

\* lines 52-57: write the levels out; Exit(0)
Output ==
    /\ pc = "output"
    /\ pc' = "exit"
    /\ exit_code' = 0
    /\ UNCHANGED <<data, jsonschema_ok, valid, items, lvls, trace>>

Next == Validate \/ Order \/ Output

Spec == Init /\ [][Next]_vars

---------------------------------------------------------------------------
(* levels called directly, as the tests call it, and called again on the   *)
(* same items in another order.                                            *)

InitLevels ==
    /\ \E l \in IndexLists(Len(LevelItemPool), MaxItems) : items = Pick(LevelItemPool, l)
    /\ pc = "call"
    /\ lvls = NoResult
    /\ data = Num
    /\ jsonschema_ok = FALSE
    /\ valid = NotValidated
    /\ exit_code = -1
    /\ trace = <<>>

\* s with its elements j and j+1 exchanged
Swap(s, j) == [k \in 1..Len(s) |-> IF k = j THEN s[j + 1] ELSE IF k = j + 1 THEN s[j] ELSE s[k]]

\* lvls = levels(items)
Call ==
    /\ pc = "call"
    /\ lvls' = levels(items)
    /\ pc' = "returned"
    /\ trace' = <<"levels">>
    /\ UNCHANGED <<data, jsonschema_ok, valid, items, exit_code>>

\* levels(items) again, two neighbouring items exchanged
CallPermuted ==
    /\ pc = "returned"
    /\ \E j \in 1..(Len(items) - 1) :
          /\ items' = Swap(items, j)
          /\ lvls' = levels(Swap(items, j))
    /\ trace' = <<"levels", "levels">>
    /\ UNCHANGED <<data, jsonschema_ok, pc, valid, exit_code>>

\* levels(items) again, two neighbouring deps entries of an item exchanged
CallDepsPermuted ==
    /\ pc = "returned"
    /\ \E i \in 1..Len(items) :
       \E j \in 1..(Len(deps_of(items[i])) - 1) :
          LET it == items[i]
              its == [items EXCEPT ![i] =
                        Obj([it.v EXCEPT !.deps = List(Swap(it.v.deps.v, j))])]
          IN /\ items' = its
             /\ lvls' = levels(its)
    /\ trace' = <<"levels", "levels">>
    /\ UNCHANGED <<data, jsonschema_ok, pc, valid, exit_code>>

NextLevels == Call \/ CallPermuted \/ CallDepsPermuted

SpecLevels == InitLevels /\ [][NextLevels]_vars

---------------------------------------------------------------------------
(* The vocabulary of the properties, stated on the input alone.            *)

\* the name of an item: its name field unless absent or empty, else repo@branch
ResolvedName(it) ==
    IF Has(it, "name") /\ it.v.name.v # <<>>
    THEN it.v.name.v
    ELSE it.v.repo.v \o <<64>> \o it.v.branch.v

\* the name of an item read to the letter: its name field whenever it has one
StatedName(it) ==
    IF Has(it, "name") THEN it.v.name.v ELSE it.v.repo.v \o <<64>> \o it.v.branch.v

Names(its) == {ResolvedName(its[i]) : i \in 1..Len(its)}

DistinctNames(its) ==
    \A i, j \in 1..Len(its) : i # j => ResolvedName(its[i]) # ResolvedName(its[j])

\* the deps of a name: those of every item that resolves to it
DepsOfName(its, n) ==
    UNION {Range(deps_of(its[i])) : i \in {k \in 1..Len(its) : ResolvedName(its[k]) = n}}

AllResolve(its) ==
    \A i \in 1..Len(its) : \A j \in 1..Len(deps_of(its[i])) : deps_of(its[i])[j] \in Names(its)

\* the names reached from the set S along deps in at most k steps
RECURSIVE Reach(_, _, _)
Reach(its, S, k) ==
    IF k = 0 THEN S
    ELSE Reach(its, S \cup UNION {DepsOfName(its, n) : n \in S}, k - 1)

\* some name depends, directly or along a chain, on itself
HasCycle(its) ==
    \E n \in Names(its) : n \in Reach(its, DepsOfName(its, n), Len(its))

SetMax(S) == CHOOSE x \in S : \A y \in S : y <= x

\* topological depth of a name of an acyclic list whose deps resolve
RECURSIVE Depth(_, _)
Depth(its, n) ==
    IF DepsOfName(its, n) = {} THEN 0
    ELSE 1 + SetMax({Depth(its, d) : d \in DepsOfName(its, n)})

\* topological depth of one item, by its own deps only
RECURSIVE ItemDepth(_, _)
ItemDepth(its, i) ==
    IF deps_of(its[i]) = <<>> THEN 0
    ELSE 1 + SetMax({ItemDepth(its, j) :
                       j \in {k \in 1..Len(its) : ResolvedName(its[k]) \in Range(deps_of(its[i]))}})

\* the indexes of the returned levels that hold the name n
LevelsHolding(n) == {k \in 1..Len(lvls.levels) : n \in Range(lvls.levels[k])}

\* the returned levels laid end to end
RECURSIVE Flatten(_)
Flatten(ls) == IF ls = <<>> THEN <<>> ELSE Head(ls) \o Flatten(Tail(ls))

\* how often the name n occurs in the returned levels
Occurrences(n) ==
    Cardinality({p \in 1..Len(Flatten(lvls.levels)) : Flatten(lvls.levels)[p] = n})

\* the first deps entry, items in list order and deps in declared order, naming no item
FirstUnknown(its) ==
    LET i == CHOOSE a \in 1..Len(its) :
               /\ \E j \in 1..Len(deps_of(its[a])) : deps_of(its[a])[j] \notin Names(its)
               /\ \A b \in 1..(a - 1) : Range(deps_of(its[b])) \subseteq Names(its)
        j == CHOOSE c \in 1..Len(deps_of(its[i])) :
               /\ deps_of(its[i])[c] \notin Names(its)
               /\ \A e \in 1..(c - 1) : deps_of(its[i])[e] \in Names(its)
    IN [me |-> ResolvedName(its[i]), d |-> deps_of(its[i])[j]]

Returned1 == pc = "returned"

---------------------------------------------------------------------------
(* Properties of levels, under SpecLevels.                                 *)

\* C1: whenever levels returns a level list, every deps entry u of every item v
\* lies in a level of strictly smaller index than v: no item depends on an item
\* of its own or of a later level.
C1_TopologicalValidity ==
    (Returned1 /\ lvls.kind = "levels") =>
        \A i \in 1..Len(items) : \A u \in Range(deps_of(items[i])) :
            /\ LevelsHolding(u) # {}
            /\ LevelsHolding(ResolvedName(items[i])) # {}
            /\ \A ku \in LevelsHolding(u) : \A kv \in LevelsHolding(ResolvedName(items[i])) :
                  ku < kv

\* a chain of three items came back as three levels
C1_Witness ==
    /\ Returned1 /\ lvls.kind = "levels"
    /\ Len(lvls.levels) = 3
    /\ DistinctNames(items)
    /\ \E i \in 1..Len(items) : Len(deps_of(items[i])) = 2

C3_UnknownDepFirst ==
    (Returned1 /\ ~AllResolve(items)) =>
        /\ lvls.kind = "KeyError"
        /\ lvls.me = FirstUnknown(items).me
        /\ lvls.d = FirstUnknown(items).d
        /\ lvls.levels = <<>> /\ lvls.partial = <<>>

\* an unknown dep in a later item than a cycle, with two unknown deps in that item
C3_Witness ==
    /\ Returned1 /\ lvls.kind = "KeyError" /\ HasCycle(items)
    /\ lvls.d = sY
    /\ lvls.me # ResolvedName(items[1])

\* C4: whenever levels returns a level list for items with pairwise distinct
\* resolved names, every item's name occurs exactly once in the levels and every
\* name in a level is an item's name: the levels partition the item set.
C4_Partition ==
    (Returned1 /\ lvls.kind = "levels" /\ DistinctNames(items)) =>
        /\ \A i \in 1..Len(items) : Occurrences(ResolvedName(items[i])) = 1
        /\ \A k \in 1..Len(lvls.levels) : Range(lvls.levels[k]) \subseteq Names(items)

\* four distinct items in three levels
C4_Witness ==
    /\ Returned1 /\ lvls.kind = "levels" /\ DistinctNames(items)
    /\ Len(items) = 4 /\ Len(lvls.levels) = 3

\* C5: the outcome of levels depends on the graph alone: called again with two
\* items exchanged or two deps entries of an item exchanged (which generate every
\* permutation), it returns the identical level list when the deps resolve and
\* the graph is acyclic, and raises CycleError again when it is cyclic.
C5_OrderIndependent ==
    [][(pc = "returned" /\ pc' = "returned") =>
          /\ lvls.kind = "levels" => lvls' = lvls
          /\ lvls.kind = "CycleError" => lvls'.kind = "CycleError"]_vars

\* a second call, on items out of name order with deps out of order, returned levels
C5_Witness ==
    /\ Returned1 /\ Len(trace) = 2 /\ lvls.kind = "levels"
    /\ Len(lvls.levels) >= 2
    /\ \E i \in 1..(Len(items) - 1) :
          LexLess(ResolvedName(items[i + 1]), ResolvedName(items[i]))
    /\ \E i \in 1..Len(items) :
          Len(deps_of(items[i])) = 2 /\ LexLess(deps_of(items[i])[2], deps_of(items[i])[1])

\* C6, amended: for an acyclic list whose deps resolve, the k-th level is exactly
\* the sorted list, without repetition, of the resolved names of depth k, where a
\* name's deps are those of every item resolving to it (for pairwise distinct
\* names: of the items of depth k); level 0 holds the names without deps, every
\* name of a level k >= 1 has a dep in level k-1, and no level is empty.
C6_LevelsAreDepths ==
    (Returned1 /\ AllResolve(items) /\ ~HasCycle(items)) =>
        /\ lvls.kind = "levels"
        /\ \A n \in Names(items) : Depth(items, n) < Len(lvls.levels)
        /\ \A k \in 1..Len(lvls.levels) :
              /\ lvls.levels[k] # <<>>
              /\ Range(lvls.levels[k]) = {n \in Names(items) : Depth(items, n) = k - 1}
              /\ \A m \in 1..(Len(lvls.levels[k]) - 1) :
                    LexLess(lvls.levels[k][m], lvls.levels[k][m + 1])
              /\ k = 1 => \A n \in Range(lvls.levels[k]) : DepsOfName(items, n) = {}
              /\ k > 1 => \A n \in Range(lvls.levels[k]) :
                              DepsOfName(items, n) \cap Range(lvls.levels[k - 1]) # {}

\* two names without deps, then two names that were scheduled out of name order
C6_Witness ==
    /\ Returned1 /\ AllResolve(items) /\ ~HasCycle(items)
    /\ DistinctNames(items)
    /\ Len(lvls.levels) = 2
    /\ lvls.levels[1] = <<sA, sB>>
    /\ lvls.levels[2] = <<sC, sDerived>>

\* C6 as stated: the k-th level is the sorted list of the items whose own depth is k
C6_AsStated ==
    (Returned1 /\ AllResolve(items) /\ ~HasCycle(items)) =>
        /\ lvls.kind = "levels"
        /\ \A i \in 1..Len(items) : ItemDepth(items, i) < Len(lvls.levels)
        /\ \A k \in 1..Len(lvls.levels) :
              /\ lvls.levels[k] # <<>>
              /\ Range(lvls.levels[k]) =
                    {ResolvedName(items[i]) :
                       i \in {j \in 1..Len(items) : ItemDepth(items, j) = k - 1}}
              /\ \A m \in 1..(Len(lvls.levels[k]) - 1) :
                    ~LexLess(lvls.levels[k][m + 1], lvls.levels[k][m])

---------------------------------------------------------------------------
(* Properties of the validator and of the merge-order command, under Spec. *)

PlanItems == data.v.items.v

\* the answer the fixed order of checks calls for: the first field violation in
\* document order, the duplicate names only when there is none, else acceptance
FirstViolation(d) ==
    IF Violations(d) # <<>> THEN Head(Violations(d))
    ELSE IF ~DistinctNames(d.v.items.v)
    THEN Err(<<"items">>, "duplicate item names (explicit or derived)")
    ELSE Ok

\* C7: merge-order validates, then checks the deps, then levels, and exits with
\* one code, set by the first stage to fail: 1 when validate_plan rejects (levels
\* is never called), 2 when the plan is valid and a dep names no item, 3 when it
\* is valid, the deps resolve and there is a cycle, 0 only with levels produced.
C7_ExitCodes ==
    /\ (pc = "exit") <=> (exit_code # -1)
    /\ \/ trace = <<>>
       \/ trace = <<"validate_plan">>
       \/ trace = <<"validate_plan", "levels">>
    /\ pc = "exit" =>
          IF ~valid.ok
          THEN exit_code = 1 /\ trace = <<"validate_plan">> /\ lvls = NoResult
          ELSE /\ trace = <<"validate_plan", "levels">>
               /\ IF ~AllResolve(PlanItems) THEN exit_code = 2 /\ lvls.kind = "KeyError"
                  ELSE IF HasCycle(PlanItems) THEN exit_code = 3 /\ lvls.kind = "CycleError"
                  ELSE exit_code = 0 /\ lvls.kind = "levels"

\* a valid plan with both an unknown dep and a cycle has exited
C7_Witness ==
    /\ pc = "exit" /\ valid.ok
    /\ ~AllResolve(PlanItems) /\ HasCycle(PlanItems)
    /\ exit_code = 2

\* C8: whenever validate_plan returns ok = true, by the schema-driven strategy or
\* by the fallback, the resolved names of the plan's items are pairwise distinct.
C8_AcceptedNamesDistinct ==
    (pc # "start" /\ valid.ok) => DistinctNames(PlanItems)

\* C9: the fallback validator returns exactly one error, the first violation in
\* the order target, items, then item by item repo, branch, name, deps, gates
\* (gate by gate name, run, cwd, env), the duplicate names last and only when
\* every item passes its field checks; an earlier violation always wins.
C9_FirstViolation ==
    (pc # "start" /\ ~jsonschema_ok) => valid = FirstViolation(data)

\* a plan with three or more violations, the first of them a gate's cwd
C9_Witness ==
    /\ pc # "start" /\ ~jsonschema_ok
    /\ Len(Violations(data)) >= 3
    /\ Len(valid.path) = 5
    /\ valid.path[5] = "cwd"

\* the validator's uniqueness check and the engine's name set, dependency lookup
\* and output levels all take N(item) for the name of an item
NameUsed(N(_)) ==
    LET names == {N(items[i]) : i \in 1..Len(items)}
    IN /\ (pc # "start" /\ ~jsonschema_ok /\ Violations(data) = <<>>) =>
             (valid.ok <=>
                \A i, j \in 1..Len(PlanItems) : i # j => N(PlanItems[i]) # N(PlanItems[j]))
       /\ lvls.kind = "levels" =>
             UNION {Range(lvls.levels[k]) : k \in 1..Len(lvls.levels)} = names
       /\ lvls.kind \in {"levels", "CycleError"} =>
             \A i \in 1..Len(items) : Range(deps_of(items[i])) \subseteq names
       /\ lvls.kind = "KeyError" =>
             \E i \in 1..Len(items) :
                /\ lvls.me = N(items[i])
                /\ lvls.d \in Range(deps_of(items[i])) \ names

\* C10, amended: for every accepted item the identity is the explicit name when
\* the item has a non-empty name field, and repo + "@" + branch when name is
\* absent or the empty string; the validator's uniqueness check and the engine
\* (name set, dependency lookup, output levels) use this same resolved name.
C10_ResolvedNameUsed == NameUsed(ResolvedName)

\* an accepted plan with an empty name field beside an explicit name was levelled
C10_Witness ==
    /\ pc = "exit" /\ exit_code = 0 /\ ~jsonschema_ok
    /\ \E i, j \in 1..Len(items) :
          /\ Has(items[i], "name") /\ items[i].v.name.v = <<>>
          /\ Has(items[j], "name") /\ items[j].v.name.v # <<>>

\* C10 as stated: the explicit name whenever the item has a name field
C10_AsStated == NameUsed(StatedName)

=============================================================================
